---- MODULE Spec2Model ----
(***************************************************************************)
(* A model of endio's encoding side: the order dispatch of endian.rs, the   *)
(* Serialize trait of serialize.rs with its default methods, and the        *)
(* provided implementations (slices, Vec, bool, the integers, the floats),  *)
(* together with the two composite types of the documentation and tests.    *)
(*                                                                          *)
(* An integer wider than 8 bits is a sequence of base-65536 digits, most    *)
(* significant first; the leading digit of a signed type is signed.  A      *)
(* float is its IEEE-754 fields.  A sink is a std::io::Write: a byte        *)
(* buffer that accepts a number of write_all calls and then fails.          *)
(***************************************************************************)
EXTENDS Integers, Sequences, FiniteSets, TLC

VARIABLES host, writer, prev, op, res

vars == <<host, writer, prev, op, res>>

(* ------------------------------ bounds -------------------------------- *)

\* longest slice or Vec that is encoded
MaxSeqLen == 3
\* a sink holds at most this many earlier bytes when an encode starts
MaxPre == 1
\* a limited sink accepts at most this many write_all calls before failing
MaxOkCalls == 3
\* a failing write_all lets at most this many bytes through
MaxPart == 1

(* ------------------------------- types -------------------------------- *)

BigEndian == "BigEndian"
LittleEndian == "LittleEndian"
Orders == {BigEndian, LittleEndian}

UnsignedWide == {"u16", "u32", "u64", "u128"}
SignedWide == {"i16", "i32", "i64", "i128"}
WideInts == UnsignedWide \cup SignedWide
Signed == SignedWide \cup {"i8"}

\* std::mem::size_of::<t>() in bytes
size_of(t) ==
  CASE t \in {"bool", "u8", "i8"} -> 1
    [] t \in {"u16", "i16"} -> 2
    [] t \in {"u32", "i32", "f32"} -> 4
    [] t \in {"u64", "i64", "f64"} -> 8
    [] t \in {"u128", "i128"} -> 16

\* number of base-65536 digits of a wide integer type
Limbs(t) == size_of(t) \div 2

Val(ty, b, d, es) == [ty |-> ty, b |-> b, d |-> d, es |-> es]
IntVal(t, d) == Val(t, FALSE, d, <<>>)
BoolVal(b) == Val("bool", b, <<>>, <<>>)

\* the digits of v as unsigned digits (two's complement of the leading one)
UDigits(v) == [i \in 1..Len(v.d) |-> v.d[i] % 65536]

\* the digits u read as a value of type t
FromUDigits(t, u) ==
  IntVal(t, [i \in 1..Len(u) |->
               IF i = 1 /\ t \in Signed /\ u[i] >= 32768 THEN u[i] - 65536 ELSE u[i]])

(* --------------------------- std: integers ---------------------------- *)

swap16(l) == (l % 256) * 256 + (l \div 256)

\* reverses the byte order of the integer
swap_bytes(v) ==
  LET u == UDigits(v)
      n == Len(u)
  IN FromUDigits(v.ty, [i \in 1..n |-> swap16(u[n + 1 - i])])

\* from the target's endianness to big endian: a no-op on a big-endian target
to_be(v) == IF host = "big" THEN v ELSE swap_bytes(v)

\* from the target's endianness to little endian: a no-op on a little-endian target
to_le(v) == IF host = "little" THEN v ELSE swap_bytes(v)

\* the memory representation of the integer, in the target's byte order
to_ne_bytes(v) ==
  IF size_of(v.ty) = 1
  THEN <<v.d[1] % 256>>
  ELSE LET u == UDigits(v)
           n == Len(u)
           be == [k \in 1..(2 * n) |->
                    IF k % 2 = 1 THEN u[(k + 1) \div 2] \div 256
                                 ELSE u[(k + 1) \div 2] % 256]
       IN IF host = "big" THEN be ELSE [k \in 1..(2 * n) |-> be[2 * n + 1 - k]]

to_be_bytes(v) == to_ne_bytes(to_be(v))

to_le_bytes(v) == to_ne_bytes(to_le(v))

\* `self as u8` of a bool
as_u8(v) == IntVal("u8", <<IF v.b THEN 1 ELSE 0>>)

\* `integer as t` of a u128: truncation to the low bits of t
as_t(integer, t) ==
  LET n == Limbs(t)
      u == UDigits(integer)
  IN FromUDigits(t, [i \in 1..n |-> u[Len(u) - n + i]])

(* ---------------------------- std: floats ----------------------------- *)

\* f32::to_bits: sign (1 bit), exponent (8 bits), mantissa (23 bits)
f32_to_bits(v) ==
  IntVal("u32", <<v.d[1] * 32768 + v.d[2] * 128 + (v.d[3] \div 65536), v.d[3] % 65536>>)

\* f64::to_bits: sign (1 bit), exponent (11 bits), mantissa (4 + 3 * 16 bits)
f64_to_bits(v) ==
  IntVal("u64", <<v.d[1] * 32768 + v.d[2] * 16 + v.d[3], v.d[4], v.d[5], v.d[6]>>)

(* ------------------------------ the sink ------------------------------ *)

Ok == [tag |-> "Ok", id |-> 0]
Err(k) == [tag |-> "Err", id |-> k]
Panic == [tag |-> "Panic", id |-> 0]

Min(a, b) == IF a < b THEN a ELSE b

\* vec![]: a sink that never fails
NewVec == [buf |-> <<>>, calls |-> 0, limited |-> FALSE, okCalls |-> 0, part |-> 0]

\* a Vec that took n earlier one-byte writes
Prefilled(n) == [NewVec EXCEPT !.buf = [k \in 1..n |-> \hEE], !.calls = n]

\* a sink with n earlier bytes that accepts ok more calls and fails every
\* later one, after letting part bytes through
LimitedSink(n, ok, part) ==
  [Prefilled(n) EXCEPT !.limited = TRUE, !.okCalls = n + ok, !.part = part]

\* std::io::Write::write_all: all of buf, or a failure after a proper prefix
write_all(w, buf) ==
  IF w.limited /\ w.calls >= w.okCalls
  THEN [w |-> [w EXCEPT !.buf = @ \o SubSeq(buf, 1, Min(w.part, Len(buf) - 1)),
                        !.calls = @ + 1],
        res |-> Err(w.calls)]
  ELSE [w |-> [w EXCEPT !.buf = @ \o buf, !.calls = @ + 1], res |-> Ok]

(* --------------------------- the Serialize trait ---------------------- *)

RECURSIVE serialize(_, _, _)
RECURSIVE serialize_be(_, _, _)
RECURSIVE serialize_le(_, _, _)
RECURSIVE Endianness_serialize(_, _, _)
RECURSIVE ewrite(_, _, _)
RECURSIVE slice_loop(_, _, _, _)

\* variant: the default body returns success instead of aborting
default_serialize_ok(v, w) == [w |-> w, res |-> Ok]

\* Serialize::serialize, the default body: unreachable!()
default_serialize(v, w) == [w |-> w, res |-> Panic]

\* Serialize::serialize_be, the default body
default_serialize_be(E, v, w) == serialize(E, v, w)

\* Serialize::serialize_le, the default body
default_serialize_le(E, v, w) == serialize(E, v, w)

\* variant: the loop stops one element early
slice_loop_skip_last(E, es, i, w) ==
  IF i >= Len(es)
  THEN [w |-> w, res |-> Ok]
  ELSE LET r == ewrite(E, es[i], w)
       IN IF r.res.tag # "Ok" THEN r ELSE slice_loop(E, es, i + 1, r.w)

\* variant: the loop drops an element's failure and goes on (no `?`)
slice_loop_ignore_err(E, es, i, w) ==
  IF i > Len(es)
  THEN [w |-> w, res |-> Ok]
  ELSE LET r == ewrite(E, es[i], w)
       IN IF r.res.tag = "Panic" THEN r ELSE slice_loop(E, es, i + 1, r.w)

\* for elem in self { writer.ewrite(*elem)?; } from element i on
slice_loop(E, es, i, w) ==
  IF i > Len(es)
  THEN [w |-> w, res |-> Ok]
  ELSE LET r == ewrite(E, es[i], w)
       IN IF r.res.tag # "Ok" THEN r ELSE slice_loop(E, es, i + 1, r.w)

\* impl Serialize for &[S]
slice_serialize(E, v, w) == slice_loop(E, v.es, 1, w)

\* Vec::as_slice
as_slice(v) == Val("slice", FALSE, <<>>, v.es)

\* impl Serialize for &Vec<S>
vec_serialize(E, v, w) == ewrite(E, as_slice(v), w)

\* variant: true is written as 0xff
bool_serialize_allones(v, w) == write_all(w, <<IF v.b THEN 255 ELSE 0>>)

\* impl Serialize for bool
bool_serialize(v, w) == write_all(w, to_ne_bytes(as_u8(v)))

\* impl Serialize for u8
u8_serialize(v, w) == write_all(w, to_ne_bytes(v))

\* impl Serialize for i8
i8_serialize(v, w) == write_all(w, to_ne_bytes(v))

\* variant: serialize_be writes the little-endian bytes
int_serialize_be_le(v, w) == write_all(w, to_le_bytes(v))

\* impl_int!: serialize_be
int_serialize_be(v, w) == write_all(w, to_be_bytes(v))

\* variant: serialize_le writes the big-endian bytes
int_serialize_le_be(v, w) == write_all(w, to_be_bytes(v))

\* impl_int!: serialize_le
int_serialize_le(v, w) == write_all(w, to_le_bytes(v))

\* variant: the bit pattern is always written in big order
f32_serialize_be(E, v, w) == serialize_be(E, f32_to_bits(v), w)

\* impl Serialize for f32
f32_serialize(E, v, w) == ewrite(E, f32_to_bits(v), w)

\* impl Serialize for f64
f64_serialize(E, v, w) == ewrite(E, f64_to_bits(v), w)

\* variant: b is written before a
Example_serialize_swapped(E, v, w) ==
  LET rb == ewrite(E, v.es[2], w)
  IN IF rb.res.tag # "Ok" THEN rb
     ELSE LET ra == ewrite(E, v.es[1], rb.w)
          IN IF ra.res.tag # "Ok" THEN ra ELSE ewrite(E, v.es[3], ra.w)

\* impl Serialize for &Example: ewrite(a)?; ewrite(b)?; ewrite(c)
Example_serialize(E, v, w) ==
  LET ra == ewrite(E, v.es[1], w)
  IN IF ra.res.tag # "Ok" THEN ra
     ELSE LET rb == ewrite(E, v.es[2], ra.w)
          IN IF rb.res.tag # "Ok" THEN rb ELSE ewrite(E, v.es[3], rb.w)

\* impl Serialize for Test: ewrite(a)?; Ok(())
Test_serialize(E, v, w) ==
  LET ra == ewrite(E, v.es[1], w)
  IN IF ra.res.tag # "Ok" THEN ra ELSE [w |-> ra.w, res |-> Ok]

\* the types whose impl overrides the order-agnostic serialize
OverridesSerialize ==
  {"slice", "vec", "bool", "u8", "i8", "f32", "f64", "Example", "Test"}

\* the types whose impl overrides the pair serialize_be and serialize_le
OverridesPair == WideInts

\* the serialize of v's impl
serialize(E, v, w) ==
  CASE v.ty = "slice" -> slice_serialize(E, v, w)
    [] v.ty = "vec" -> vec_serialize(E, v, w)
    [] v.ty = "bool" -> bool_serialize(v, w)
    [] v.ty = "u8" -> u8_serialize(v, w)
    [] v.ty = "i8" -> i8_serialize(v, w)
    [] v.ty = "f32" -> f32_serialize(E, v, w)
    [] v.ty = "f64" -> f64_serialize(E, v, w)
    [] v.ty = "Example" -> Example_serialize(E, v, w)
    [] v.ty = "Test" -> Test_serialize(E, v, w)
    [] OTHER -> default_serialize(v, w)

\* the serialize_be of v's impl
serialize_be(E, v, w) ==
  IF v.ty \in OverridesPair THEN int_serialize_be(v, w) ELSE default_serialize_be(E, v, w)

\* variant: impl_int! overrides serialize_be only
serialize_le_not_overridden(E, v, w) == default_serialize_le(E, v, w)

\* the serialize_le of v's impl
serialize_le(E, v, w) ==
  IF v.ty \in OverridesPair THEN int_serialize_le(v, w) ELSE default_serialize_le(E, v, w)

\* impl Endianness for BigEndian / LittleEndian: serialize
Endianness_serialize(E, v, w) ==
  IF E = BigEndian THEN serialize_be(E, v, w) ELSE serialize_le(E, v, w)

\* EWrite<E>::ewrite: the generic-order sugar forwards to the order dispatch
ewrite(E, v, w) == Endianness_serialize(E, v, w)

\* EWrite::write_be: the sugar that forces big order
write_be(v, w) == Endianness_serialize(BigEndian, v, w)

\* EWrite::write_le: the sugar that forces little order
write_le(v, w) == Endianness_serialize(LittleEndian, v, w)

(* ------------------------- the values encoded ------------------------- *)

\* base-65536 digits: 0, 1, 0x2cf3, 0x8000, 0xadba, 0xbaad, 0xf00d, 0xfecf, 0xffff
LimbSet == {0, 1, \h2CF3, \h8000, \hADBA, \hBAAD, \hF00D, \hFECF, \hFFFF}
PairLimbSet == {0, \hADBA, \hBAAD, \hF00D, \hFFFF}
WideLimbSet == {0, \hBAAD, \hF00D}

\* the digit sequences of n digits that are encoded: every digit alone and
\* every pair; for the longer ones two alternating digits, a single 1 at
\* each position, and the smallest signed value
DigitsOf(n) ==
  IF n = 1 THEN {<<a>> : a \in LimbSet}
  ELSE IF n = 2 THEN {<<a, b>> : a \in PairLimbSet, b \in PairLimbSet}
                     \cup {<<\h2CF3, \hFECF>>, <<\h8000, 0>>, <<0, 1>>}
  ELSE {[i \in 1..n |-> IF i % 2 = 1 THEN ab[1] ELSE ab[2]] : ab \in WideLimbSet \X WideLimbSet}
       \cup {[i \in 1..n |-> IF i = k THEN 1 ELSE 0] : k \in 1..n}
       \cup {[i \in 1..n |-> IF i = 1 THEN \h8000 ELSE 0]}

WideIntsOf(t) == {FromUDigits(t, u) : u \in DigitsOf(Limbs(t))}
WideIntVals == UNION {WideIntsOf(t) : t \in WideInts}

U8Vals == {IntVal("u8", <<x>>) : x \in {0, 1, 42, 128, 255}}
I8Vals == {IntVal("i8", <<x>>) : x \in {-128, -1, 0, 1, 127}}
BoolVals == {BoolVal(b) : b \in BOOLEAN}

F32(sign, exp, mant) == Val("f32", FALSE, <<sign, exp, mant>>, <<>>)
F64(sign, exp, m) == Val("f64", FALSE, <<sign, exp>> \o m, <<>>)

\* 642.613525390625f32 = 2^9 * (1 + 0x20a744 / 2^23)
F32_642 == F32(0, 136, \h20A744)
\* 1337.0083007812f32 = 2^10 * (1 + 0x272044 / 2^23)
F32_1337 == F32(0, 137, \h272044)
\* 1310.5201984283194f64 = 2^10 * (1 + 0x47a14aee59440 / 2^52)
F64_1310 == F64(0, 1033, <<4, \h7A14, \hAEE5, \h9440>>)
\* 1337.4199999955163f64 = 2^10 * (1 + 0x4e5ae147a9440 / 2^52)
F64_1337 == F64(0, 1033, <<4, \hE5AE, \h147A, \h9440>>)

F32Vals ==
  {F32(s, e, m) : s \in {0, 1}, e \in {0, 255}, m \in {0, \h400001, \h7FFFFF}}
  \cup {F32_642, F32_1337}
F64Vals ==
  {F64(s, e, m) : s \in {0, 1}, e \in {0, 2047},
                  m \in {<<0, 0, 0, 0>>, <<8, 0, 0, 1>>, <<15, \hFFFF, \hFFFF, \hFFFF>>}}
  \cup {F64_1310, F64_1337}

Example(a, b, c) ==
  Val("Example", FALSE, <<>>, <<IntVal("u8", <<a>>), BoolVal(b), IntVal("u32", c)>>)
Test(a) == Val("Test", FALSE, <<>>, <<IntVal("u16", <<a>>)>>)

\* Example { a: 42, b: true, c: 754187983 }
Example_doc == Example(42, TRUE, <<\h2CF3, \hFECF>>)
\* Test { a: 0xbaad }
Test_forced == Test(\hBAAD)

ExampleVals ==
  {Example(a, b, c) : a \in {42, 255}, b \in BOOLEAN,
                      c \in {<<\h2CF3, \hFECF>>, <<\hBAAD, \hF00D>>, <<0, 1>>}}
TestVals == {Test(a) : a \in LimbSet}

SeqsOver(S) == UNION {[1..n -> S] : n \in 0..MaxSeqLen}
Slice(es) == Val("slice", FALSE, <<>>, es)
Vec(es) == Val("vec", FALSE, <<>>, es)

\* the element types of the slices encoded, two values of each
ElemSets ==
  { {IntVal("u16", <<\hADBA>>), IntVal("u16", <<\hBAAD>>)},
    {BoolVal(FALSE), BoolVal(TRUE)},
    {IntVal("i8", <<-128>>), IntVal("i8", <<127>>)},
    {IntVal("u32", <<\hBAAD, \hF00D>>), IntVal("u32", <<0, 1>>)},
    {F32_642, F32_1337},
    {Example_doc, Example(255, FALSE, <<0, 1>>)},
    {Slice(<<>>), Slice(<<IntVal("u16", <<\hADBA>>), IntVal("u16", <<1>>)>>)},
    {Vec(<<IntVal("u8", <<42>>)>>), Vec(<<IntVal("u8", <<1>>), IntVal("u8", <<255>>)>>)} }

SliceVals == {Slice(es) : es \in UNION {SeqsOver(S) : S \in ElemSets}}
\* the element types of the Vecs encoded
VecElemSets ==
  { {IntVal("u16", <<\hADBA>>), IntVal("u16", <<\hBAAD>>)},
    {BoolVal(FALSE), BoolVal(TRUE)},
    {Slice(<<>>), Slice(<<IntVal("u16", <<\hADBA>>), IntVal("u16", <<1>>)>>)} }

VecVals == {Vec(es) : es \in UNION {SeqsOver(S) : S \in VecElemSets}}

Values ==
  WideIntVals \cup U8Vals \cup I8Vals \cup BoolVals \cup F32Vals \cup F64Vals
  \cup ExampleVals \cup TestVals \cup SliceVals \cup VecVals

\* let integer: u128 = 0xbaadf00dbaadf00dbaadf00dbaadf00d
integer == IntVal("u128", [i \in 1..8 |-> IF i % 2 = 1 THEN \hBAAD ELSE \hF00D])
\* the integers the test is run with: its own, 1, 0xadba...adba, and 2^127
TestIntegers ==
  {integer, IntVal("u128", [i \in 1..8 |-> IF i = 8 THEN 1 ELSE 0]),
   IntVal("u128", [i \in 1..8 |-> \hADBA]),
   IntVal("u128", [i \in 1..8 |-> IF i = 1 THEN \h8000 ELSE 0])}
\* b"\x0d\xf0\xad\xba\x0d\xf0\xad\xba\x0d\xf0\xad\xba\x0d\xf0\xad\xba"
bytes == [k \in 1..16 |-> <<\h0D, \hF0, \hAD, \hBA>>[((k - 1) % 4) + 1]]

(* --------------------------- the state machine ------------------------ *)

NoOp == [name |-> "none", E |-> BigEndian, v |-> BoolVal(FALSE)]

Init ==
  /\ host \in {"little", "big"}
  /\ writer = NewVec
  /\ prev = NewVec
  /\ op = NoOp
  /\ res = Ok

Idle == op.name = "none"

\* the call has returned (or unwound); r is what it left
Done(name, E, v, r) ==
  /\ writer' = r.w
  /\ prev' = writer
  /\ op' = [name |-> name, E |-> E, v |-> v]
  /\ res' = r.res
  /\ UNCHANGED host

\* the writer is a Vec that holds the bytes written to it earlier
NewWriter ==
  /\ Idle /\ writer = NewVec
  /\ \E n \in 0..MaxPre :
       /\ writer' = Prefilled(n)
       /\ prev' = Prefilled(n)
       /\ UNCHANGED <<host, op, res>>

\* the writer is a caller-supplied sink that fails after some more calls
NewLimitedWriter ==
  /\ Idle /\ writer = NewVec
  /\ \E n \in 0..MaxPre, ok \in 0..MaxOkCalls, part \in 0..MaxPart :
       /\ writer' = LimitedSink(n, ok, part)
       /\ prev' = LimitedSink(n, ok, part)
       /\ UNCHANGED <<host, op, res>>

\* the caller is done with the writer; the next block starts with vec![]
Return ==
  /\ ~Idle
  /\ writer' = NewVec
  /\ prev' = NewVec
  /\ op' = NoOp
  /\ res' = Ok
  /\ UNCHANGED host

\* E::serialize(v, &mut writer)
Dispatch ==
  /\ Idle
  /\ \E E \in Orders, v \in Values :
       Done("dispatch", E, v, Endianness_serialize(E, v, writer))

\* use BEWrite / LEWrite; writer.ewrite(v)
EWrite ==
  /\ Idle
  /\ \E E \in Orders, v \in Values :
       Done("ewrite", E, v, ewrite(E, v, writer))

\* writer.write_be(v), whichever sugar is in scope
WriteBe ==
  /\ Idle
  /\ \E scope \in Orders, v \in Values :
       Done("write_be", scope, v, write_be(v, writer))

\* writer.write_le(v), whichever sugar is in scope
WriteLe ==
  /\ Idle
  /\ \E scope \in Orders, v \in Values :
       Done("write_le", scope, v, write_le(v, writer))

\* Serialize::<E, W>::serialize(v, &mut writer): the order-agnostic method
CallSerialize ==
  /\ Idle
  /\ \E E \in Orders, v \in Values :
       Done("serialize", E, v, serialize(E, v, writer))

\* impl_int! test: use BEWrite; writer.ewrite((integer as t).to_be())
IntTestBe ==
  /\ Idle
  /\ \E t \in WideInts, i \in TestIntegers :
       Done("ewrite_to_be", BigEndian, as_t(i, t), ewrite(BigEndian, to_be(as_t(i, t)), writer))

\* impl_int! test: use LEWrite; writer.ewrite((integer as t).to_le())
IntTestLe ==
  /\ Idle
  /\ \E t \in WideInts, i \in TestIntegers :
       Done("ewrite_to_le", LittleEndian, as_t(i, t), ewrite(LittleEndian, to_le(as_t(i, t)), writer))

Next ==
  \/ NewWriter
  \/ NewLimitedWriter
  \/ Return
  \/ Dispatch
  \/ EWrite
  \/ WriteBe
  \/ WriteLe
  \/ CallSerialize
  \/ IntTestBe
  \/ IntTestLe

Spec == Init /\ [][Next]_vars

TypeOK ==
  /\ host \in {"little", "big"}
  /\ res.tag \in {"Ok", "Err", "Panic"}
  /\ \A k \in 1..Len(writer.buf) : writer.buf[k] \in 0..255

(* ------------------------- what the claims use ------------------------ *)

\* the order the last call encoded under
EncOrder ==
  CASE op.name = "write_be" -> BigEndian
    [] op.name = "write_le" -> LittleEndian
    [] OTHER -> op.E

OtherOrder(E) == IF E = BigEndian THEN LittleEndian ELSE BigEndian

\* the last call only appended to the sink
Appended ==
  /\ Len(writer.buf) >= Len(prev.buf)
  /\ SubSeq(writer.buf, 1, Len(prev.buf)) = prev.buf

\* the bytes the last call appended
Written == SubSeq(writer.buf, Len(prev.buf) + 1, Len(writer.buf))

Reverse(s) == [k \in 1..Len(s) |-> s[Len(s) + 1 - k]]

\* byte j of the two's complement of the integer v, byte 0 the least significant
ByteOfValue(v, j) ==
  IF size_of(v.ty) = 1
  THEN v.d[1] % 256
  ELSE LET l == v.d[Len(v.d) - (j \div 2)] % 65536
       IN IF j % 2 = 0 THEN l % 256 ELSE l \div 256

MsbFirst(v) == [k \in 1..size_of(v.ty) |-> ByteOfValue(v, size_of(v.ty) - k)]
LsbFirst(v) == [k \in 1..size_of(v.ty) |-> ByteOfValue(v, k - 1)]

\* what encoding e alone under E writes to an empty Vec
Individual(E, e) == Endianness_serialize(E, e, NewVec).w.buf

(* -------------------------------- C1 ---------------------------------- *)

\* C1: encoding a 16-, 32-, 64- or 128-bit integer through the order
\* dispatch succeeds on a sink that does not fail, and then appends exactly
\* size_of(t) bytes: the most significant byte first under big order, the
\* least significant byte first under little order.
C1_IntBytes ==
  (op.name = "dispatch" /\ op.v.ty \in WideInts) =>
    /\ ~prev.limited => res = Ok
    /\ res = Ok =>
         /\ Appended
         /\ Len(Written) = size_of(op.v.ty)
         /\ op.E = BigEndian => Written = MsbFirst(op.v)
         /\ op.E = LittleEndian => Written = LsbFirst(op.v)

\* i128::MIN was encoded under big order on a little-endian target
C1_Witness ==
  /\ host = "little"
  /\ op.name = "dispatch" /\ op.E = BigEndian /\ res = Ok
  /\ op.v = IntVal("i128", [i \in 1..8 |-> IF i = 1 THEN -32768 ELSE 0])
  /\ Written = [k \in 1..16 |-> IF k = 1 THEN 128 ELSE 0]

(* -------------------------------- C5 ---------------------------------- *)

\* the one byte of a bool, u8 or i8
OneByte(v) ==
  CASE v.ty = "bool" -> IF v.b THEN 1 ELSE 0
    [] v.ty = "u8" -> v.d[1]
    [] v.ty = "i8" -> IF v.d[1] < 0 THEN v.d[1] + 256 ELSE v.d[1]

\* C5: encoding a bool writes the one byte 0x00 or 0x01, encoding a u8 or an
\* i8 writes its one raw byte, and the byte is the one the other order writes.
C5_OneByte ==
  (op.name = "dispatch" /\ op.v.ty \in {"bool", "u8", "i8"}) =>
    /\ ~prev.limited => res = Ok
    /\ res = Ok =>
         /\ Appended
         /\ Written = <<OneByte(op.v)>>
         /\ Written = Individual(OtherOrder(op.E), op.v)

\* i8::min_value() was encoded under little order and gave 0x80
C5_Witness ==
  /\ op.name = "dispatch" /\ op.E = LittleEndian /\ res = Ok
  /\ op.v = IntVal("i8", <<-128>>)
  /\ Written = <<128>>

(* -------------------------------- C9 ---------------------------------- *)

\* the byte representation of v reads the same in both directions
Palindrome(v) == MsbFirst(v) = LsbFirst(v)

\* C9: the bytes that encoding a 16- to 128-bit integer under one order
\* appends are the reversal of the bytes encoding it under the other order
\* writes, and the two differ exactly when the integer's byte representation
\* is not a palindrome.
C9_Reversal ==
  (op.name = "dispatch" /\ op.v.ty \in WideInts /\ res = Ok) =>
    /\ Written = Reverse(Individual(OtherOrder(op.E), op.v))
    /\ (Written # Individual(OtherOrder(op.E), op.v)) <=> ~Palindrome(op.v)

\* 0xbaadf00d was encoded under little order: not a palindrome
C9_Witness ==
  /\ op.name = "dispatch" /\ op.E = LittleEndian /\ res = Ok
  /\ op.v = IntVal("u32", <<\hBAAD, \hF00D>>)
  /\ Written = <<\h0D, \hF0, \hAD, \hBA>>
  /\ Individual(BigEndian, op.v) = <<\hBA, \hAD, \hF0, \h0D>>

\* 0xbaadadba was encoded: a palindrome, the same bytes under both orders
C9_WitnessPalindrome ==
  /\ op.name = "dispatch" /\ res = Ok
  /\ op.v = IntVal("u32", <<\hBAAD, \hADBA>>)
  /\ Written = Individual(OtherOrder(op.E), op.v)

(* -------------------------------- C7 ---------------------------------- *)

\* C7: the order-agnostic serialize of a 16- to 128-bit integer aborts,
\* whatever the sink: it returns neither success nor a failure, and it
\* writes nothing.
C7_DefaultAborts ==
  (op.name = "serialize" /\ op.v.ty \in WideInts) =>
    /\ res = Panic
    /\ writer = prev

\* serialize was called on a u64 with a sink whose next write would fail
C7_Witness ==
  /\ op.name = "serialize" /\ op.v.ty = "u64"
  /\ prev.limited /\ prev.okCalls = prev.calls
  /\ res = Panic

(* -------------------------------- C8 ---------------------------------- *)

\* the value types serialize.rs provides an impl for
ProvidedTypes ==
  {"slice", "vec", "bool", "u8", "i8", "f32", "f64"} \cup WideInts

RECURSIVE IsProvided(_)
\* v and the elements nested in it are of provided types only
IsProvided(v) ==
  /\ v.ty \in ProvidedTypes
  /\ \A i \in 1..Len(v.es) : IsProvided(v.es[i])

\* C8: every provided type overrides serialize or the pair, and an encode of
\* a provided value that starts at the order dispatch never ends in the
\* aborting default body of serialize.
C8_NoAbort ==
  /\ \A t \in ProvidedTypes : t \in OverridesSerialize \cup OverridesPair
  /\ (op.name = "dispatch" /\ IsProvided(op.v)) => res.tag # "Panic"

\* a slice of slices of u16 was encoded under little order, through the
\* slice impl, the sugar, and the integer impl
C8_Witness ==
  /\ op.name = "dispatch" /\ op.E = LittleEndian /\ res = Ok
  /\ op.v.ty = "slice" /\ Len(op.v.es) = 2
  /\ op.v.es[2] = Slice(<<IntVal("u16", <<\hADBA>>), IntVal("u16", <<1>>)>>)
  /\ Written = <<\hBA, \hAD, 1, 0>>

(* -------------------------------- C3 ---------------------------------- *)

RECURSIVE ConcatIndividual(_, _, _)
\* the individual encodings of the first n elements of es, one after another
ConcatIndividual(E, es, n) ==
  IF n = 0 THEN <<>> ELSE ConcatIndividual(E, es, n - 1) \o Individual(E, es[n])

\* C3: on a sink that never fails, encoding a slice succeeds and appends the
\* concatenation of its elements' individual encodings in index order
\* (nothing for the empty slice), and encoding a Vec leaves the sink as
\* encoding its slice does.
C3_SliceConcat ==
  (op.name \in {"dispatch", "ewrite"} /\ op.v.ty \in {"slice", "vec"} /\ ~prev.limited) =>
    /\ res = Ok
    /\ Appended
    /\ Written = ConcatIndividual(op.E, op.v.es, Len(op.v.es))
    /\ op.v.ty = "vec" => writer = Endianness_serialize(op.E, as_slice(op.v), prev).w

\* tests::write_slice: [0xadba, 0xadba] under little order gives ba ad ba ad
C3_Witness ==
  /\ op.name = "ewrite" /\ op.E = LittleEndian /\ res = Ok
  /\ op.v = Slice(<<IntVal("u16", <<\hADBA>>), IntVal("u16", <<\hADBA>>)>>)
  /\ Written = <<\hBA, \hAD, \hBA, \hAD>>

\* tests::write_vec: the same elements in a Vec
C3_WitnessVec ==
  /\ op.name = "ewrite" /\ op.E = LittleEndian /\ res = Ok
  /\ op.v = Vec(<<IntVal("u16", <<\hADBA>>), IntVal("u16", <<\hADBA>>)>>)
  /\ Written = <<\hBA, \hAD, \hBA, \hAD>>

\* the empty slice: success, nothing written, no call on the sink
C3_WitnessEmpty ==
  /\ op.name = "ewrite" /\ op.v = Slice(<<>>) /\ res = Ok
  /\ writer = prev

\* a slice of one element
C3_WitnessOne ==
  /\ op.name = "ewrite" /\ op.E = BigEndian /\ res = Ok
  /\ op.v = Slice(<<IntVal("u32", <<\hBAAD, \hF00D>>)>>)
  /\ Written = <<\hBA, \hAD, \hF0, \h0D>>

(* -------------------------------- C6 ---------------------------------- *)

\* the number of write_all calls that encoding e alone makes
NumCalls(E, e) == Endianness_serialize(E, e, NewVec).w.calls

RECURSIVE CallsBefore(_, _, _)
\* the number of write_all calls for the first n elements of es
CallsBefore(E, es, n) ==
  IF n = 0 THEN 0 ELSE CallsBefore(E, es, n - 1) + NumCalls(E, es[n])

\* the element (from 1) whose encoding makes call number f (from 0)
ElementOfCall(E, es, f) ==
  CHOOSE k \in 1..Len(es) : CallsBefore(E, es, k - 1) <= f /\ f < CallsBefore(E, es, k)

\* C6: when the sink fails during the encoding of a slice or Vec, on a call
\* made for element k, the encode returns that call's failure, the failing
\* call is the last one made, and the sink holds what it held before, then
\* the encodings of the elements before k in order, then only a proper
\* prefix of element k's encoding.  A sink that accepts every call the
\* encoding needs gives success.
C6_FirstFailure ==
  (op.name \in {"dispatch", "ewrite"} /\ op.v.ty \in {"slice", "vec"} /\ prev.limited) =>
    LET es == op.v.es
        f == prev.okCalls - prev.calls
    IN IF f >= CallsBefore(op.E, es, Len(es))
       THEN res = Ok
       ELSE LET k == ElementOfCall(op.E, es, f)
                before == ConcatIndividual(op.E, es, k - 1)
                rest == SubSeq(Written, Len(before) + 1, Len(Written))
                elem == Individual(op.E, es[k])
            IN /\ res = Err(prev.okCalls)
               /\ writer.calls = prev.okCalls + 1
               /\ Appended
               /\ Len(Written) >= Len(before)
               /\ SubSeq(Written, 1, Len(before)) = before
               /\ Len(rest) < Len(elem)
               /\ rest = SubSeq(elem, 1, Len(rest))

\* the sink accepted one call and failed the second of three u16 elements
\* after one byte: the first element is there, the third was not attempted
C6_Witness ==
  /\ op.name = "dispatch" /\ op.E = BigEndian
  /\ op.v = Slice(<<IntVal("u16", <<\hADBA>>), IntVal("u16", <<\hBAAD>>),
                    IntVal("u16", <<\hADBA>>)>>)
  /\ prev = LimitedSink(0, 1, 1)
  /\ res = Err(1)
  /\ writer.calls = 2
  /\ writer.buf = <<\hAD, \hBA, \hBA>>

(* -------------------------------- C4 ---------------------------------- *)

\* the bit pattern of a float from its IEEE-754 fields, most significant
\* byte first
BitPattern(v) ==
  IF v.ty = "f32"
  THEN <<v.d[1] * 128 + (v.d[2] \div 2), (v.d[2] % 2) * 128 + (v.d[3] \div 65536),
         (v.d[3] \div 256) % 256, v.d[3] % 256>>
  ELSE <<v.d[1] * 128 + (v.d[2] \div 16), (v.d[2] % 16) * 16 + v.d[3],
         v.d[4] \div 256, v.d[4] % 256, v.d[5] \div 256, v.d[5] % 256,
         v.d[6] \div 256, v.d[6] % 256>>

\* the float's bit pattern as the unsigned integer of its width
BitsAsUint(v) ==
  LET b == BitPattern(v)
  IN IntVal(IF v.ty = "f32" THEN "u32" ELSE "u64",
            [i \in 1..(Len(b) \div 2) |-> b[2 * i - 1] * 256 + b[2 * i]])

\* C4: encoding an f32 or f64 appends the bytes of its bit pattern, sign,
\* exponent and mantissa (NaN payload included) unchanged, in the order's
\* byte order: the bytes that encoding the bit pattern as a u32 or u64
\* writes.
C4_FloatBits ==
  (op.name \in {"dispatch", "ewrite"} /\ op.v.ty \in {"f32", "f64"}) =>
    /\ ~prev.limited => res = Ok
    /\ res = Ok =>
         /\ Appended
         /\ Written = Individual(op.E, BitsAsUint(op.v))
         /\ op.E = BigEndian => Written = BitPattern(op.v)
         /\ op.E = LittleEndian => Written = Reverse(BitPattern(op.v))
         /\ (op.v = F32_642 /\ op.E = BigEndian) => Written = <<\h44, \h20, \hA7, \h44>>
         /\ (op.v = F32_1337 /\ op.E = LittleEndian) => Written = <<\h44, \h20, \hA7, \h44>>
         /\ (op.v = F64_1310 /\ op.E = BigEndian) =>
              Written = <<\h40, \h94, \h7A, \h14, \hAE, \hE5, \h94, \h40>>
         /\ (op.v = F64_1337 /\ op.E = LittleEndian) =>
              Written = <<\h40, \h94, \h7A, \h14, \hAE, \hE5, \h94, \h40>>

\* tests::write_f32, the little-order half
C4_Witness ==
  /\ op.name = "ewrite" /\ op.E = LittleEndian /\ res = Ok
  /\ op.v = F32_1337
  /\ Written = <<\h44, \h20, \hA7, \h44>>

\* a negative f64 NaN with a payload, under big order
C4_WitnessNaN ==
  /\ op.name = "ewrite" /\ op.E = BigEndian /\ res = Ok
  /\ op.v = F64(1, 2047, <<8, 0, 0, 1>>)
  /\ Written = <<\hFF, \hF8, 0, 0, 0, 0, 0, 1>>

(* -------------------------------- C2 ---------------------------------- *)

\* C2: encoding an Example or a Test under an order, taken from the sugar in
\* scope or forced by write_be / write_le, appends its fields' individual
\* encodings under that order, in field order; the length and the one-byte
\* fields are those of the other order.
C2_Composite ==
  (op.name \in {"ewrite", "write_be", "write_le"} /\ op.v.ty \in {"Example", "Test"}) =>
    /\ ~prev.limited => res = Ok
    /\ res = Ok =>
         /\ Appended
         /\ Written = ConcatIndividual(EncOrder, op.v.es, Len(op.v.es))
         /\ Len(Written) = Len(Individual(OtherOrder(EncOrder), op.v))
         /\ op.v.ty = "Example" =>
              SubSeq(Written, 1, 2) = SubSeq(Individual(OtherOrder(EncOrder), op.v), 1, 2)
         /\ (op.v = Example_doc /\ EncOrder = LittleEndian) =>
              Written = <<\h2A, \h01, \hCF, \hFE, \hF3, \h2C>>
         /\ (op.v = Example_doc /\ EncOrder = BigEndian) =>
              Written = <<\h2A, \h01, \h2C, \hF3, \hFE, \hCF>>
         /\ (op.v = Test_forced /\ EncOrder = BigEndian) => Written = <<\hBA, \hAD>>

\* tests::write_struct_forced: write_be while the little-order sugar is in scope
C2_Witness ==
  /\ op.name = "write_be" /\ op.E = LittleEndian /\ res = Ok
  /\ op.v = Test_forced
  /\ Written = <<\hBA, \hAD>>

\* the documentation's Example under the little-order sugar
C2_WitnessExample ==
  /\ op.name = "ewrite" /\ op.E = LittleEndian /\ res = Ok
  /\ op.v = Example_doc
  /\ Written = <<\h2A, \h01, \hCF, \hFE, \hF3, \h2C>>

(* -------------------------------- C10 --------------------------------- *)

\* C10: encoding v.to_be() under big order and v.to_le() under little order
\* both write the bytes of v least significant byte first; for the test's
\* integer, the first size_of(t) bytes of 0d f0 ad ba ...
C10_IntTest ==
  (op.name \in {"ewrite_to_be", "ewrite_to_le"} /\ res = Ok) =>
    /\ Written = LsbFirst(op.v)
    /\ op.v = as_t(integer, op.v.ty) => Written = SubSeq(bytes, 1, size_of(op.v.ty))

\* C10, its last part: the big-order encoding of v.to_be() is the
\* little-order encoding of v.to_le(), on either target
C10_SameBytes ==
  (op.name \in {"ewrite_to_be", "ewrite_to_le"} /\ res = Ok) =>
    /\ Written = Individual(BigEndian, to_be(op.v))
    /\ Written = Individual(LittleEndian, to_le(op.v))

\* C10 on a little-endian target
C10_LittleTarget == host = "little" => C10_IntTest

\* the test ran for u16 on a little-endian target and passed
C10_Witness ==
  /\ host = "little"
  /\ op.name = "ewrite_to_be" /\ res = Ok
  /\ op.v = as_t(integer, "u16")
  /\ Written = <<\h0D, \hF0>>

====
